---- MODULE Spec2Model ----
(***************************************************************************)
(* exo/download/hf/hf_helpers.py: the pattern filter, the resumable file   *)
(* transfer (download_file under its tenacity retry decorator) and the     *)
(* concurrent repository download (download_repo_files) with its two       *)
(* levels of progress events, and the manifest lookup (get_weight_map).    *)
(*                                                                         *)
(* Paths, patterns and header values are sequences of one-character        *)
(* strings; file contents are sequences of bytes.  One step of the model   *)
(* is what one coroutine runs between two suspension points.               *)
(***************************************************************************)
EXTENDS Integers, Sequences, FiniteSets, TLC

\* ------------------------------------------------------------------ bounds
\* Largest listed file size, in bytes.
MaxSize == 2
\* Failed requests (a transport failure before the response) injected into
\* one run of download_repo_files with concurrent transfers.
MaxFaultsRepo == 1
\* Failed requests (a transport failure before the response, or an answer
\* with an error status) injected into the run of a single transfer against
\* an arbitrary server.
MaxFaultsFile == 1
\* Failures while a body is streamed (a broken connection, a failed write)
\* injected into one run of download_repo_files with concurrent transfers; the
\* run of a single transfer has one.
MaxStreamFaults == 1
\* Event and read counters saturate here ("this many or more").
CountCap == 2
\* Longest item list and pattern list handed to filter_repo_objects alone.
MaxItems == 2
MaxPatterns == 1
\* The run of a single transfer that is retried: the size of its file, the
\* failed requests injected into it, and the answers with an unparsable
\* Content-Range it gets, each of which starts a nested download_file frame
\* (the run against an arbitrary server gets one, the run with concurrent
\* transfers none).
LargeSize == 3
MaxTransient == 6
MaxFallbacks == 2

\* ------------------------------------------------------- program constants
\* stop_after_attempt(5)
MaxAttempts == 5
\* DOWNLOAD_CHUNK_SIZE
DOWNLOAD_CHUNK_SIZE == 32768

Min(a, b) == IF a < b THEN a ELSE b
Sat(n) == Min(n, CountCap)

\* ------------------------------------------------------------ pattern filter
\* fnmatch.fnmatch on a POSIX path: '*' matches any run of characters ('/'
\* included), '?' one character, anything else itself; the whole name must
\* match.
RECURSIVE fnmatch(_, _)
fnmatch(name, pat) ==
  IF pat = <<>> THEN name = <<>>
  ELSE IF Head(pat) = "*"
       THEN fnmatch(name, Tail(pat)) \/ (name # <<>> /\ fnmatch(Tail(name), pat))
  ELSE IF name = <<>> THEN FALSE
  ELSE IF Head(pat) = "?" THEN fnmatch(Tail(name), Tail(pat))
  ELSE Head(pat) = Head(name) /\ fnmatch(Tail(name), Tail(pat))

\* _add_wildcard_to_directories: pattern[-1] raises IndexError on the empty
\* string; otherwise a trailing '/' gets a '*' appended.
wildcard_raises(pattern) == pattern = <<>>
add_wildcard_to_directories(pattern) ==
  IF pattern[Len(pattern)] = "/" THEN pattern \o <<"*">> ELSE pattern

\* A pattern argument is None, one pattern string, or a list of strings.
NonePat == [kind |-> "none", v |-> <<>>]
Str(p) == [kind |-> "str", v |-> <<p>>]
List(ps) == [kind |-> "list", v |-> ps]
\* Lines 23-26: a string becomes a one-element list.
as_list(patterns) ==
  IF patterns.kind = "str" THEN [kind |-> "list", v |-> patterns.v] ELSE patterns
\* Lines 27-30: each pattern of a list gets its directory wildcard.
normalize_patterns(patterns) ==
  LET l == as_list(patterns)
  IN IF l.kind = "none" THEN l
     ELSE [l EXCEPT !.v = [i \in 1..Len(l.v) |-> add_wildcard_to_directories(l.v[i])]]
patterns_raise(patterns) ==
  LET l == as_list(patterns)
  IN l.kind # "none" /\ \E i \in 1..Len(l.v) : wildcard_raises(l.v[i])

any_fnmatch(path, patterns) ==
  \E i \in 1..Len(patterns.v) : fnmatch(path, patterns.v[i])

\* Lines 43-47: the two `continue` tests of the loop body.
keeps(path, allow, ignore) ==
  /\ ~(allow.kind # "none" /\ ~any_fnmatch(path, allow))
  /\ ~(ignore.kind # "none" /\ any_fnmatch(path, ignore))

RECURSIVE filter_loop(_, _, _)
filter_loop(items, allow, ignore) ==
  IF items = <<>> THEN <<>>
  ELSE (IF keeps(Head(items).path, allow, ignore) THEN <<Head(items)>> ELSE <<>>)
       \o filter_loop(Tail(items), allow, ignore)

\* filter_repo_objects with key = the item's path: the list it yields, or the
\* exception raised while it rewrites the patterns.
filter_repo_objects(items, allow_patterns, ignore_patterns) ==
  IF patterns_raise(allow_patterns) \/ patterns_raise(ignore_patterns)
  THEN [raised |-> TRUE, items |-> <<>>]
  ELSE [raised |-> FALSE,
        items |-> filter_loop(items, normalize_patterns(allow_patterns),
                              normalize_patterns(ignore_patterns))]

\* ------------------------------------------------------------- HTTP headers
Digits == <<"0", "1", "2", "3", "4", "5", "6", "7", "8", "9">>
IsDigit(c) == \E d \in 1..10 : Digits[d] = c
DigitValue(c) == (CHOOSE d \in 1..10 : Digits[d] = c) - 1

\* str(n) for n >= 0.
RECURSIVE ToStr(_)
ToStr(n) == IF n < 10 THEN <<Digits[n + 1]>> ELSE ToStr(n \div 10) \o <<Digits[(n % 10) + 1]>>

\* content_range.split('/')[-1]: what follows the last '/', or the whole
\* string when it has none.
RECURSIVE last_segment(_)
last_segment(s) ==
  IF \E i \in 1..Len(s) : s[i] = "/" THEN last_segment(Tail(s)) ELSE s

RECURSIVE digits_value(_, _)
digits_value(s, acc) ==
  IF s = <<>> THEN acc ELSE digits_value(Tail(s), 10 * acc + DigitValue(Head(s)))

\* int(s): a decimal literal with an optional sign; anything else raises
\* ValueError (ok = FALSE).
int(s) ==
  LET neg == s # <<>> /\ Head(s) = "-"
      d == IF neg THEN Tail(s) ELSE s
  IN IF d # <<>> /\ \A i \in 1..Len(d) : IsDigit(d[i])
     THEN [ok |-> TRUE, value |-> IF neg THEN 0 - digits_value(d, 0) ELSE digits_value(d, 0)]
     ELSE [ok |-> FALSE, value |-> 0]

\* Lines 136 and 144.
parse_content_range(content_range) == int(last_segment(content_range))

Bytes == <<"b", "y", "t", "e", "s", " ">>
\* "bytes K-(T-1)/T" and "bytes */T"
RangeHeader(k, t) == Bytes \o ToStr(k) \o <<"-">> \o ToStr(t - 1) \o <<"/">> \o ToStr(t)
UnsatisfiedHeader(t) == Bytes \o <<"*", "/">> \o ToStr(t)
NoHeader == <<>>
UnknownTotalHeader == Bytes \o <<"0", "-", "0", "/", "*">>

\* ------------------------------------------------------------------ server
\* The bytes of the remote file of a given size, and bytes that are none of
\* them.
Remote(size) == [i \in 1..size |-> i]
JunkBytes(n) == [i \in 1..n |-> 0]
Take(s, n) == SubSeq(s, 1, Min(n, Len(s)))
Drop(s, n) == SubSeq(s, n + 1, Len(s))

Length(n) == [present |-> TRUE, n |-> n]
NoLength == [present |-> FALSE, n |-> 0]

\* What a server that implements range requests correctly may answer to a GET
\* for a file of `size` bytes when the client holds `k` bytes and asks for
\* bytes=k- (ranged) or for the whole file.
HonestResponses(k, size, ranged) ==
  { [status |-> 200, cl |-> Length(size), cr |-> NoHeader, body |-> Remote(size)] }
  \cup (IF ranged /\ k < size
        THEN { [status |-> 206, cl |-> Length(size - k), cr |-> RangeHeader(k, size),
                body |-> Drop(Remote(size), k)] }
        ELSE {})
  \cup (IF ranged /\ k >= size
        THEN { [status |-> 416, cl |-> Length(n), cr |-> UnsatisfiedHeader(size),
                body |-> JunkBytes(n)] : n \in 0..1 }
        ELSE {})

\* The same answers from a server or a proxy that sends a 206 or a 416 without
\* a usable Content-Range (none, or one with the total unknown), whatever the
\* request was.
GarbledResponses(k, size) ==
  { [status |-> 206, cl |-> Length(size - Min(k, size)), cr |-> cr,
     body |-> Drop(Remote(size), Min(k, size))] : cr \in {NoHeader, UnknownTotalHeader} }
  \cup { [status |-> 416, cl |-> Length(0), cr |-> NoHeader, body |-> <<>>] }

\* A server's answer with an error status.
ErrorResponses == { [status |-> 500, cl |-> Length(n), cr |-> NoHeader, body |-> JunkBytes(n)] : n \in 0..1 }

SuccessStatuses == {200, 206, 416}
ContentRanges ==
  {NoHeader, UnknownTotalHeader} \cup { UnsatisfiedHeader(t) : t \in 0..MaxSize }
BodyOf(status, k, size, n) ==
  LET base == IF status = 200 THEN Remote(size)
              ELSE IF status = 206 THEN Drop(Remote(size), Min(k, size)) ELSE <<>>
  IN Take(base \o JunkBytes(n), n)
\* Any answer with a success status: every combination of Content-Length
\* (absent included, then the body has any length) and, on a 206 or a 416,
\* of Content-Range.
AnyResponses(k, size, ranged) ==
  HonestResponses(k, size, ranged) \cup
  { [status |-> st, cl |-> cl, cr |-> cr, body |-> BodyOf(st, k, size, n)] :
      st \in {206, 416}, cl \in {NoLength}, n \in 0..MaxSize, cr \in ContentRanges }
  \cup
  { [status |-> st, cl |-> Length(n), cr |-> cr, body |-> BodyOf(st, k, size, n)] :
      st \in {206, 416}, n \in 0..MaxSize, cr \in ContentRanges }
  \cup
  { [status |-> 200, cl |-> cl, cr |-> NoHeader, body |-> BodyOf(200, k, size, n)] :
      cl \in {NoLength}, n \in 0..MaxSize }
  \cup
  { [status |-> 200, cl |-> Length(n), cr |-> NoHeader, body |-> BodyOf(200, k, size, n)] :
      n \in 0..MaxSize }

\* What the first response of a call was, for the statements about calls that
\* start on a complete file or resume a partial one.
Classify(k, size, ranged, r) ==
  IF r.status = 200 /\ r.cl = Length(k) THEN "complete200"
  ELSE IF r.status = 416 /\ r.cr = UnsatisfiedHeader(k) THEN "complete416"
  ELSE IF ranged /\ k < size /\ r.status = 206 /\ r.cl = Length(size - k)
          /\ r.cr = RangeHeader(k, size) /\ r.body = Drop(Remote(size), k)
       THEN "resume206"
  ELSE IF r.status \notin SuccessStatuses THEN "error"
  ELSE IF r.status = 416 /\ parse_content_range(r.cr).ok /\ parse_content_range(r.cr).value # k
       THEN "mismatch416"
  ELSE "other"

\* -------------------------------------------------------------- download_file
\* The three "already downloaded" tests (lines 122, 145, 156).
already_downloaded_gt(downloaded_size, total_size) == downloaded_size > total_size
already_downloaded(downloaded_size, total_size) == downloaded_size = total_size

\* Line 118: int(response.headers.get('Content-Length', 0)).
content_length(r) == IF r.cl.present THEN r.cl.n ELSE 0

\* The response gives a total size of zero or none: no Content-Length or
\* Content-Length 0 on a 200 (line 118), a Content-Range total of 0 on a 206 or
\* a 416 (lines 136, 144).
zero_total(r) ==
  \/ r.status = 200 /\ content_length(r) = 0
  \/ r.status \in {206, 416} /\ parse_content_range(r.cr) = [ok |-> TRUE, value |-> 0]

\* Line 156 onwards: complete at once, or open the file and stream.
after_status(downloaded_size, total_size, mode) ==
  [kind |-> IF already_downloaded(downloaded_size, total_size) THEN "complete" ELSE "stream",
   downloaded_size |-> downloaded_size, total_size |-> total_size, mode |-> mode]

\* Lines 118-160: what download_file does with the response headers, given the
\* local file size and use_range_request.  kind is complete (one complete event,
\* then return), stream, fallback (the recursive call with
\* use_range_request=False) or raise (ClientResponseError).
handle_response(local_file_size, use_range_request, r) ==
  LET total_size == content_length(r)
      mode == IF use_range_request THEN "ab" ELSE "wb"
      parsed == parse_content_range(r.cr)
      out(kind, d, t) == [kind |-> kind, downloaded_size |-> d, total_size |-> t, mode |-> mode]
  IN IF already_downloaded(local_file_size, total_size)
     THEN out("complete", local_file_size, total_size)
     ELSE IF r.status = 200 THEN after_status(0, total_size, "wb")
     ELSE IF r.status = 206
          THEN IF parsed.ok THEN after_status(local_file_size, parsed.value, mode)
               ELSE out("fallback", local_file_size, total_size)
     ELSE IF r.status = 416
          THEN IF parsed.ok
               THEN IF already_downloaded(local_file_size, parsed.value)
                    THEN out("complete", local_file_size, parsed.value)
                    ELSE after_status(local_file_size, parsed.value, mode)
               ELSE out("fallback", local_file_size, total_size)
     ELSE out("raise", local_file_size, total_size)

\* Line 174.
chunk_status(downloaded_size, total_size) ==
  IF downloaded_size < total_size THEN "in_progress" ELSE "complete"

\* The tenacity decorator (lines 97-102), once per frame of download_file: a
\* retryable exception in the innermost frame calls it again until the frame
\* has made MaxAttempts attempts, then leaves the frame (reraise=True) and is
\* handled the same way by the frame that awaited it.  The stack holds each
\* frame's attempt number, outermost first; <<>> is the exception leaving the
\* outermost frame.
RECURSIVE on_retryable(_)
on_retryable(stack) ==
  IF stack = <<>> THEN <<>>
  ELSE LET n == Len(stack)
       IN IF stack[n] < MaxAttempts
          THEN [stack EXCEPT ![n] = @ + 1]
          ELSE on_retryable(SubSeq(stack, 1, n - 1))

\* use_range_request is True in the outermost frame only (lines 139, 152).
use_range_request(stack) == Len(stack) = 1

\* ---------------------------------------------------------------- state
VARIABLES
  opc,              \* where download_repo_files (or the filter alone) is
  listing,          \* the remote tree: a list of [path, size]
  allow_patterns,   \* the allow_patterns argument
  ignore_patterns,  \* the ignore_patterns argument
  filtered,         \* what filter_repo_objects yielded, or that it raised
  refs,             \* whether refs/<revision> has been written
  total_files,      \* line 208
  total_bytes,      \* line 209
  progress_state,   \* line 237
  file_progress,    \* line 210: path -> latest RepoFileProgressEvent
  disk,             \* path -> the local file in the snapshot directory
  task,             \* one download_with_progress coroutine per filtered file
  server,           \* "honest", "garbled" or "any": the answers the server may give
  manifests,        \* the manifest document of this revision and of another snapshot
  weight_map,       \* what get_weight_map has returned, if it has
  api,              \* the revision and tree requests made so far, with their status
  faults,           \* environment faults still to be injected
  disk0,            \* history: disk when the run started
  hist,             \* history, per task: the events and requests of its transfer
  lastAgg,          \* history: the latest RepoProgressEvent emitted
  nFull             \* history: aggregate events with completed_files = total_files

vars == <<opc, listing, allow_patterns, ignore_patterns, filtered, refs, total_files,
          total_bytes, progress_state, file_progress, disk, task, server, manifests,
          weight_map, api, faults, disk0, hist, lastAgg, nFull>>

\* The local file: absent, or its bytes.
NoFile == [exists |-> FALSE, data |-> <<>>]
File(data) == [exists |-> TRUE, data |-> data]
\* Line 111: os.path.getsize if the file exists, else 0.
local_size(file) == IF file.exists THEN Len(file.data) ELSE 0

FileEvent(downloaded, this_session, total, status) ==
  [downloaded |-> downloaded, downloaded_this_session |-> this_session,
   total |-> total, status |-> status]
NoEvent == FileEvent(0, 0, 0, "none")

RepoEvent(ps, fp, status) ==
  [completed_files |-> ps.completed_files, total_files |-> total_files,
   downloaded_bytes |-> ps.downloaded_bytes,
   downloaded_bytes_this_session |-> ps.downloaded_bytes_this_session,
   total_bytes |-> total_bytes, file_progress |-> fp, status |-> status]
NoRepoEvent ==
  [completed_files |-> 0, total_files |-> 0, downloaded_bytes |-> 0,
   downloaded_bytes_this_session |-> 0, total_bytes |-> 0, file_progress |-> <<>>,
   status |-> "none"]

\* get_weight_map has not returned; the runs without a manifest.
NotReturned == [state |-> "pending", value |-> "none"]
NoManifests == [remote |-> "absent", other |-> "absent"]

Tasks == 1..Len(task)
PathOf(i) == task[i].file_info.path

NewTask(file_info) == [file_info |-> file_info, pc |-> "call", stack |-> <<1>>, mode |-> "ab", downloaded_size |-> 0,
             downloaded_this_session |-> 0, total_size |-> 0, body |-> <<>>]
\* lastEv, nEv: the latest file event and how many there were; reads: body
\* chunks read; first: what the first response of the call was; again: a
\* second response has arrived; zero: the first response gave a total size of
\* zero or none; transient: the transport failures of the call so far
\* (MaxAttempts + 1 stands for more).
NoHist == [lastEv |-> NoEvent, nEv |-> 0, reads |-> 0, first |-> "none", again |-> FALSE,
           zero |-> FALSE, transient |-> 0]

\* ------------------------------------------------- progress aggregation
\* Lines 215-216: the aggregate counters move by the difference between the
\* event and the value recorded for its path.
add_delta(counter, new, recorded) == counter + new - recorded

\* Line 223 and line 234: the status of an aggregate event.
callback_status(ps) ==
  IF ps.downloaded_bytes < total_bytes THEN "in_progress" ELSE "complete"
finish_status(ps) ==
  IF ps.completed_files < total_files THEN "in_progress" ELSE "complete"

\* Line 227.
completed_unchanged(completed_files) == completed_files
next_completed(completed_files) == completed_files + 1

Publish(ev) ==
  /\ lastAgg' = ev
  /\ nFull' = IF ev.completed_files = ev.total_files THEN Sat(nFull + 1) ELSE nFull

\* file_progress_callback (lines 214-224) run on one file event.
file_progress_callback(event_path, event) ==
  LET ps == [progress_state EXCEPT
               !.downloaded_bytes =
                  add_delta(@, event.downloaded, file_progress[event_path].downloaded),
               !.downloaded_bytes_this_session =
                  add_delta(@, event.downloaded_this_session,
                            file_progress[event_path].downloaded_this_session)]
      fp == [file_progress EXCEPT ![event_path] = event]
  IN /\ progress_state' = ps
     /\ file_progress' = fp
     /\ Publish(RepoEvent(ps, fp, callback_status(ps)))

NoProgress == UNCHANGED <<progress_state, file_progress, lastAgg, nFull>>

\* One more transport failure in the call's count.
one_more(transient) == Min(transient + 1, MaxAttempts + 1)

Emitted(h, event) == [h EXCEPT !.lastEv = event, !.nEv = Sat(@ + 1)]

\* ------------------------------------------------------------ download_file
Responses(k, size, ranged) ==
  IF server = "any"
  THEN AnyResponses(k, size, ranged) \cup (IF faults.request > 0 THEN ErrorResponses ELSE {})
  ELSE IF server = "garbled" THEN HonestResponses(k, size, ranged) \cup GarbledResponses(k, size)
  ELSE HonestResponses(k, size, ranged)

Reset(t) == [t EXCEPT !.mode = "ab", !.downloaded_size = 0, !.downloaded_this_session = 0,
                      !.total_size = 0, !.body = <<>>]

\* A retryable exception (aiohttp.ClientError, asyncio.TimeoutError) raised in
\* the innermost frame of task i.
Retryable(t) ==
  LET stack == on_retryable(t.stack)
  IN IF stack = <<>> THEN [Reset(t) EXCEPT !.pc = "failed", !.stack = <<>>]
     ELSE [Reset(t) EXCEPT !.pc = "call", !.stack = stack]

\* Lines 104-160: the request, the response headers, and either the single
\* complete event, the recursive call, the raise, or the opening of the file.
Probe(i) ==
  /\ task[i].pc = "call"
  /\ LET t == task[i]
         path == t.file_info.path
         k == local_size(disk[path])
         ranged == use_range_request(t.stack)
     IN \E r \in Responses(k, t.file_info.size, ranged) :
          LET o == handle_response(k, ranged, r)
              h == [hist[i] EXCEPT
                      !.first = IF @ = "none" THEN Classify(k, t.file_info.size, ranged, r) ELSE @,
                      !.again = (hist[i].first # "none"),
                      !.zero = IF hist[i].first = "none" THEN zero_total(r) ELSE @]
              event == FileEvent(o.downloaded_size, 0, o.total_size, "complete")
          IN /\ o.kind = "fallback" => faults.fallback > 0
             /\ faults' = IF o.kind = "fallback" THEN [faults EXCEPT !.fallback = @ - 1]
                          ELSE IF r.status \in SuccessStatuses THEN faults
                          ELSE [faults EXCEPT !.request = @ - 1]
             /\ CASE o.kind = "complete" ->
                       /\ task' = [task EXCEPT ![i] = [Reset(t) EXCEPT !.pc = "returned", !.stack = <<>>]]
                       /\ hist' = [hist EXCEPT ![i] = Emitted(h, event)]
                       /\ file_progress_callback(path, event)
                       /\ UNCHANGED disk
                  [] o.kind = "fallback" ->
                       /\ task' = [task EXCEPT ![i] = [Reset(t) EXCEPT !.stack = @ \o <<1>>]]
                       /\ hist' = [hist EXCEPT ![i] = h]
                       /\ NoProgress
                       /\ UNCHANGED disk
                  [] o.kind = "raise" ->
                       /\ task' = [task EXCEPT ![i] = Retryable(t)]
                       /\ hist' = [hist EXCEPT ![i] = h]
                       /\ NoProgress
                       /\ UNCHANGED disk
                  [] o.kind = "stream" ->
                       /\ task' = [task EXCEPT ![i] =
                                     [t EXCEPT !.pc = "streaming", !.mode = o.mode,
                                               !.downloaded_size = o.downloaded_size,
                                               !.downloaded_this_session = 0,
                                               !.total_size = o.total_size,
                                               !.body = r.body]]
                       /\ hist' = [hist EXCEPT ![i] = h]
                       /\ NoProgress
                       \* open(local_path, mode): 'wb' truncates, 'ab' creates.
                       /\ disk' = [disk EXCEPT ![path] =
                                     IF o.mode = "wb" \/ ~@.exists THEN File(<<>>) ELSE @]
  /\ UNCHANGED <<opc, listing, allow_patterns, ignore_patterns, filtered, refs,
                 total_files, total_bytes, server, manifests, weight_map, api, disk0>>

\* session.get fails before any response (connection error, timeout).
RequestFails(i) ==
  /\ task[i].pc = "call"
  /\ faults.request > 0
  /\ faults' = [faults EXCEPT !.request = @ - 1]
  /\ task' = [task EXCEPT ![i] = Retryable(@)]
  /\ hist' = [hist EXCEPT ![i].transient = one_more(@)]
  /\ NoProgress
  /\ UNCHANGED <<opc, listing, allow_patterns, ignore_patterns, filtered, refs,
                 total_files, total_bytes, server, manifests, weight_map, api, disk, disk0>>

\* Lines 165-176: one chunk of the body is written and reported.
Chunk(i) ==
  /\ task[i].pc = "streaming"
  /\ task[i].body # <<>>
  /\ \E n \in 1..Min(Len(task[i].body), DOWNLOAD_CHUNK_SIZE) :
       LET t == task[i]
           path == t.file_info.path
           downloaded_size == t.downloaded_size + n
           downloaded_this_session == t.downloaded_this_session + n
           event == FileEvent(downloaded_size, downloaded_this_session, t.total_size,
                              chunk_status(downloaded_size, t.total_size))
       IN /\ disk' = [disk EXCEPT ![path] = File(@.data \o Take(t.body, n))]
          /\ task' = [task EXCEPT ![i] =
                        [t EXCEPT !.downloaded_size = downloaded_size,
                                  !.downloaded_this_session = downloaded_this_session,
                                  !.body = Drop(@, n)]]
          /\ IF t.total_size # 0
             THEN /\ hist' = [hist EXCEPT ![i] = Emitted([@ EXCEPT !.reads = Sat(@ + 1)], event)]
                  /\ file_progress_callback(path, event)
             ELSE /\ hist' = [hist EXCEPT ![i].reads = Sat(@ + 1)]
                  /\ NoProgress
  /\ UNCHANGED <<opc, listing, allow_patterns, ignore_patterns, filtered, refs,
                 total_files, total_bytes, server, manifests, weight_map, api, faults, disk0>>

\* The body ends: the file is closed and download_file returns through every
\* frame.
StreamEnd(i) ==
  /\ task[i].pc = "streaming"
  /\ task[i].body = <<>>
  /\ task' = [task EXCEPT ![i] = [Reset(@) EXCEPT !.pc = "returned", !.stack = <<>>]]
  /\ NoProgress
  /\ UNCHANGED <<opc, listing, allow_patterns, ignore_patterns, filtered, refs,
                 total_files, total_bytes, server, manifests, weight_map, api, faults, disk, disk0, hist>>

\* The connection breaks while the body is read (aiohttp.ClientPayloadError,
\* a timeout): what was written stays in the file.
StreamFails(i) ==
  /\ task[i].pc = "streaming"
  /\ faults.stream > 0
  /\ faults' = [faults EXCEPT !.stream = @ - 1]
  /\ task' = [task EXCEPT ![i] = Retryable(@)]
  /\ hist' = [hist EXCEPT ![i].transient = one_more(@)]
  /\ NoProgress
  /\ UNCHANGED <<opc, listing, allow_patterns, ignore_patterns, filtered, refs,
                 total_files, total_bytes, server, manifests, weight_map, api, disk, disk0>>

\* f.write raises OSError (the disk is full): not an exception the decorator
\* retries, so it leaves every frame.
WriteFails(i) ==
  /\ task[i].pc = "streaming"
  /\ task[i].body # <<>>
  /\ faults.stream > 0
  /\ faults' = [faults EXCEPT !.stream = @ - 1]
  /\ task' = [task EXCEPT ![i] = [Reset(@) EXCEPT !.pc = "failed", !.stack = <<>>]]
  /\ NoProgress
  /\ UNCHANGED <<opc, listing, allow_patterns, ignore_patterns, filtered, refs,
                 total_files, total_bytes, server, manifests, weight_map, api, disk, disk0, hist>>

\* ------------------------------------------------------ download_repo_files
\* Lines 227-235: download_file has returned.
Finish(i) ==
  /\ task[i].pc = "returned"
  /\ LET file_info == task[i].file_info
         ps == [progress_state EXCEPT !.completed_files = next_completed(@)]
         fp == [file_progress EXCEPT ![file_info.path] =
                  FileEvent(file_info.size, @.downloaded_this_session, file_info.size,
                            "complete")]
     IN /\ progress_state' = ps
        /\ file_progress' = fp
        /\ Publish(RepoEvent(ps, fp, finish_status(ps)))
  /\ task' = [task EXCEPT ![i].pc = "done"]
  /\ UNCHANGED <<opc, listing, allow_patterns, ignore_patterns, filtered, refs,
                 total_files, total_bytes, server, manifests, weight_map, api, faults, disk, disk0, hist>>

\* One request to the hub API and the status it got: the revision lookup, or
\* the listing of one directory of the tree.
ApiCall(kind, path, status) == [kind |-> kind, path |-> path, status |-> status]

\* Lines 190-200: the revision lookup; the refs file is written on a 200.
ResolveRevision ==
  /\ opc = "resolve"
  /\ \E status \in {200, 404} :
       /\ api' = Append(api, ApiCall("revision", <<>>, status))
       /\ IF status = 200
          THEN opc' = "list" /\ refs' = TRUE
          ELSE opc' = "raised" /\ UNCHANGED refs
  /\ UNCHANGED <<listing, allow_patterns, ignore_patterns, filtered, total_files,
                 total_bytes, progress_state, file_progress, disk, task, server,
                 manifests, weight_map, faults, disk0, hist, lastAgg, nFull>>

\* The remote tree behind the flat list of its files: the directory a path is
\* in (<<>> is the root), the directories from the root down to one, and the
\* directories in the order fetch_file_list requests them (line 79 for the
\* root, lines 89-90 for a directory item).
RECURSIVE dirname(_)
dirname(path) ==
  IF path = <<>> THEN <<>>
  ELSE IF path[Len(path)] = "/" THEN SubSeq(path, 1, Len(path) - 1)
  ELSE dirname(SubSeq(path, 1, Len(path) - 1))
RECURSIVE dir_chain(_)
dir_chain(dir) == IF dir = <<>> THEN << <<>> >> ELSE dir_chain(dirname(dir)) \o <<dir>>
RECURSIVE tree_requests(_, _)
tree_requests(files, requested) ==
  IF files = <<>> THEN requested
  ELSE LET new == SelectSeq(dir_chain(dirname(Head(files).path)),
                            LAMBDA d : \A j \in 1..Len(requested) : requested[j] # d)
       IN tree_requests(Tail(files), requested \o new)
Directories(tree) == tree_requests(tree, << <<>> >>)

\* Line 238: the files a transfer is launched for.
launch_all(file_list, filtered_file_list) == file_list
launch_list(file_list, filtered_file_list) == filtered_file_list

\* Lines 208-209.
RECURSIVE sum_sizes(_)
sum_sizes(files) == IF files = <<>> THEN 0 ELSE Head(files).size + sum_sizes(Tail(files))
count_files(filtered_file_list) == Len(filtered_file_list)

\* Line 83: the test on the status of a listing response.
listing_ok_any(status) == TRUE
listing_ok(status) == status = 200

\* Lines 206-238: one listing request of fetch_file_list; after the answer to
\* the last one, the filter, the totals, the per-file map and the fan-out.  A
\* failed listing request or a raising filter ends the call.
FetchFileList ==
  /\ opc = "list"
  /\ \E status \in {200, 404} :
       LET dirs == Directories(listing)
           n == Len(SelectSeq(api, LAMBDA c : c.kind = "tree")) + 1
           f == filter_repo_objects(listing, allow_patterns, ignore_patterns)
           launched == launch_list(listing, f.items)
       IN /\ api' = Append(api, ApiCall("tree", dirs[n], status))
          /\ IF listing_ok(status) /\ n < Len(dirs)
             THEN UNCHANGED <<opc, filtered, total_files, total_bytes, file_progress,
                              task, hist>>
             ELSE IF listing_ok(status) /\ ~f.raised
             THEN /\ opc' = "gather"
                  /\ filtered' = f
                  /\ total_files' = count_files(f.items)
                  /\ total_bytes' = sum_sizes(f.items)
                  /\ file_progress' =
                       [q \in { f.items[j].path : j \in 1..Len(f.items) } |->
                          LET j == CHOOSE j \in 1..Len(f.items) : f.items[j].path = q
                          IN FileEvent(0, 0, f.items[j].size, "not_started")]
                  /\ task' = [j \in 1..Len(launched) |-> NewTask(launched[j])]
                  /\ hist' = [j \in 1..Len(launched) |-> NoHist]
             ELSE /\ opc' = "raised"
                  /\ filtered' = IF listing_ok(status) THEN f ELSE filtered
                  /\ UNCHANGED <<total_files, total_bytes, file_progress, task, hist>>
  /\ UNCHANGED <<listing, allow_patterns, ignore_patterns, refs, progress_state, disk,
                 server, manifests, weight_map, faults, disk0, lastAgg, nFull>>

\* Line 239: asyncio.gather returns when every task has finished, and raises
\* as soon as one task has raised (the others are left running).
gather_returns_settled == \A i \in Tasks : task[i].pc \in {"done", "failed"}
gather_returns_first == \E i \in Tasks : task[i].pc = "done"
gather_returns == \A i \in Tasks : task[i].pc = "done"
gather_raises == \E i \in Tasks : task[i].pc = "failed"

GatherReturns ==
  /\ opc = "gather"
  /\ gather_returns
  /\ opc' = "returned"
  /\ UNCHANGED <<listing, allow_patterns, ignore_patterns, filtered, refs, total_files,
                 total_bytes, progress_state, file_progress, disk, task, server, manifests, weight_map, api, faults,
                 disk0, hist, lastAgg, nFull>>

GatherRaises ==
  /\ opc = "gather"
  /\ gather_raises
  /\ opc' = "raised"
  /\ UNCHANGED <<listing, allow_patterns, ignore_patterns, filtered, refs, total_files,
                 total_bytes, progress_state, file_progress, disk, task, server, manifests, weight_map, api, faults,
                 disk0, hist, lastAgg, nFull>>

\* ----------------------------------------------------------- get_weight_map
\* Line 259: the manifest's name, one path component.
ManifestName == <<"model.safetensors.index.json">>

\* The size the listing gives for the manifest (0 when it lists none).
manifest_size ==
  LET S == { j \in 1..Len(listing) : listing[j].path = ManifestName }
  IN IF S = {} THEN 0 ELSE listing[CHOOSE j \in S : TRUE].size

\* What a manifest file is to json.load: "absent" when there is no file;
\* "weight_map" or "no_weight_map" for a JSON object with or without that
\* field; "invalid" for anything json.load raises on.  The file of this
\* revision's snapshot is the remote document only when it holds exactly its
\* bytes: a proper prefix of a JSON object, an object followed by more bytes
\* and the empty file are not JSON.
document(file, size) ==
  IF ~file.exists THEN "absent"
  ELSE IF size > 0 /\ file.data = Remote(size) THEN manifests.remote
  ELSE "invalid"

\* Line 265: the snapshots the glob "*/model.safetensors.index.json" finds a
\* manifest in: the one of this revision's commit, and the one of another
\* commit left by an earlier call.
Manifest(snapshot) ==
  IF snapshot = "this" THEN document(disk[ManifestName], manifest_size) ELSE manifests.other
glob == { snapshot \in {"this", "other"} : Manifest(snapshot) # "absent" }

Returned(value) == [state |-> "returned", value |-> value]
Raised == [state |-> "raised", value |-> "none"]

\* Lines 267-272: json.load and .get("weight_map") on the file found in a
\* snapshot; the value is None or the weight map of that snapshot's manifest.
load_weight_map(snapshot) ==
  IF Manifest(snapshot) = "invalid" THEN Raised
  ELSE IF Manifest(snapshot) = "weight_map" THEN Returned(snapshot)
  ELSE Returned("None")

\* Lines 263-272, after download_repo_files has returned: next() takes the
\* first path the glob yields, and the order of a directory scan is the file
\* system's, so any snapshot holding a manifest may come first.
GetWeightMap ==
  /\ opc = "returned"
  /\ weight_map = NotReturned
  /\ IF glob = {} THEN weight_map' = Returned("None")
     ELSE \E snapshot \in glob : weight_map' = load_weight_map(snapshot)
  /\ UNCHANGED <<opc, listing, allow_patterns, ignore_patterns, filtered, refs,
                 total_files, total_bytes, progress_state, file_progress, disk, task,
                 server, manifests, api, faults, disk0, hist, lastAgg, nFull>>

\* Line 256: an exception of download_repo_files leaves get_weight_map.
GetWeightMapRaises ==
  /\ opc = "raised"
  /\ weight_map = NotReturned
  /\ weight_map' = Raised
  /\ UNCHANGED <<opc, listing, allow_patterns, ignore_patterns, filtered, refs,
                 total_files, total_bytes, progress_state, file_progress, disk, task,
                 server, manifests, api, faults, disk0, hist, lastAgg, nFull>>

\* ------------------------------------------------------------ specifications
PathA == <<"a", ".", "b">>
PathB == <<"d", "/", "c">>
RepoPaths == {PathA, PathB}

\* The local files a run may start from: none, a proper prefix of the remote
\* file, the whole file, or more bytes than the remote file has.
LocalStarts(size) ==
  {NoFile} \cup { File(Take(Remote(size), k)) : k \in 1..size }
           \cup { File(Remote(size) \o JunkBytes(1)) }

RepoPatterns ==
  { <<NonePat, NonePat>>,
    <<Str(<<"*", ".", "b">>), NonePat>>,
    <<NonePat, List(<< <<"d", "/">> >>)>>,
    <<List(<< <<>> >>), NonePat>> }

InitCommon ==
  /\ filtered = [raised |-> FALSE, items |-> <<>>]
  /\ refs = FALSE
  /\ total_files = 0
  /\ total_bytes = 0
  /\ progress_state = [completed_files |-> 0, downloaded_bytes |-> 0,
                       downloaded_bytes_this_session |-> 0]
  /\ file_progress = <<>>
  /\ task = <<>>
  /\ hist = <<>>
  /\ disk0 = disk
  /\ lastAgg = NoRepoEvent
  /\ nFull = 0
  /\ api = <<>>
  /\ weight_map = NotReturned

\* The faults a run with concurrent transfers starts with.
RepoFaults == [request |-> MaxFaultsRepo, stream |-> MaxStreamFaults, fallback |-> 0]

\* download_repo_files on a repository of two files, with concurrent transfers
\* against a server that answers correctly.
Init ==
  /\ opc = "resolve"
  /\ \E sa \in 0..MaxSize, sb \in 0..1 :
       /\ listing = << [path |-> PathA, size |-> sa], [path |-> PathB, size |-> sb] >>
       /\ disk \in { d \in [RepoPaths -> UNION { LocalStarts(n) : n \in 0..MaxSize }] :
                       d[PathA] \in LocalStarts(sa) /\ d[PathB] \in LocalStarts(sb) }
  /\ \E ps \in RepoPatterns : allow_patterns = ps[1] /\ ignore_patterns = ps[2]
  /\ server = "honest"
  /\ manifests = NoManifests
  /\ faults = RepoFaults
  /\ InitCommon

Next ==
  \/ ResolveRevision
  \/ FetchFileList
  \/ \E i \in Tasks : Probe(i)
  \/ \E i \in Tasks : RequestFails(i)
  \/ \E i \in Tasks : Chunk(i)
  \/ \E i \in Tasks : StreamEnd(i)
  \/ \E i \in Tasks : StreamFails(i)
  \/ \E i \in Tasks : WriteFails(i)
  \/ \E i \in Tasks : Finish(i)
  \/ GatherReturns
  \/ GatherRaises

Spec == Init /\ [][Next]_vars

\* download_repo_files on a repository of one file, against a server that may
\* answer anything.
InitFile ==
  /\ opc = "resolve"
  /\ \E sa \in 0..MaxSize :
       /\ listing = << [path |-> PathA, size |-> sa] >>
       /\ disk \in { d \in [RepoPaths -> UNION { LocalStarts(n) : n \in 0..MaxSize }] :
                       d[PathA] \in LocalStarts(sa) /\ d[PathB] = NoFile }
  /\ allow_patterns = NonePat
  /\ ignore_patterns = NonePat
  /\ server = "any"
  /\ manifests = NoManifests
  /\ faults = [request |-> MaxFaultsFile, stream |-> 1, fallback |-> 1]
  /\ InitCommon

SpecFile == InitFile /\ [][Next]_vars

\* download_repo_files on a repository of one larger file, fresh or partly
\* downloaded, against a server that answers correctly except that some 206
\* and 416 answers come without a usable Content-Range, over a connection that
\* fails often enough to exhaust the retries.
InitRetry ==
  /\ opc = "resolve"
  /\ listing = << [path |-> PathA, size |-> LargeSize] >>
  /\ disk \in { d \in [RepoPaths -> {NoFile} \cup { File(Take(Remote(LargeSize), k)) : k \in 1..LargeSize }] :
                  d[PathB] = NoFile }
  /\ allow_patterns = NonePat
  /\ ignore_patterns = NonePat
  /\ server = "garbled"
  /\ manifests = NoManifests
  /\ faults = [request |-> MaxTransient, stream |-> 1, fallback |-> MaxFallbacks]
  /\ InitCommon

SpecRetry == InitRetry /\ [][Next]_vars

\* filter_repo_objects alone, on every short list of items and patterns.
FilterPaths ==
  { <<"d", "/", "x">>, <<"d", "/", "y", "/", "z">>, <<"d", "X">>, <<"d">>, <<>> }
FilterPatterns ==
  { <<>>, <<"d", "/">>, <<"*">>, <<"d", "/", "x">>, <<"d", "?">>, <<"*", "/", "z">> }

RECURSIVE SeqsUpTo(_, _)
SeqsUpTo(S, n) ==
  IF n = 0 THEN { <<>> }
  ELSE LET shorter == SeqsUpTo(S, n - 1)
       IN shorter \cup { <<x>> \o q : x \in S, q \in shorter }

PatternArgs ==
  {NonePat} \cup { Str(p) : p \in FilterPatterns }
            \cup { List(ps) : ps \in SeqsUpTo(FilterPatterns, MaxPatterns) }

InitFilter ==
  /\ opc = "filter"
  /\ listing \in SeqsUpTo({ [path |-> q, size |-> 0] : q \in FilterPaths }, MaxItems)
  /\ allow_patterns \in PatternArgs
  /\ ignore_patterns \in PatternArgs
  /\ disk = [q \in RepoPaths |-> NoFile]
  /\ server = "honest"
  /\ manifests = NoManifests
  /\ faults = [request |-> 0, stream |-> 0, fallback |-> 0]
  /\ InitCommon

ApplyFilter ==
  /\ opc = "filter"
  /\ opc' = "filtered"
  /\ filtered' = filter_repo_objects(listing, allow_patterns, ignore_patterns)
  /\ UNCHANGED <<listing, allow_patterns, ignore_patterns, refs, total_files,
                 total_bytes, progress_state, file_progress, disk, task, server, manifests, weight_map, api, faults,
                 disk0, hist, lastAgg, nFull>>

NextFilter == ApplyFilter

SpecFilter == InitFilter /\ [][NextFilter]_vars

\* get_weight_map on a repository that lists the manifest, another file, both
\* or nothing, with a cache that may hold the manifest of another commit.
WeightMapListings ==
  { <<>>, << [path |-> PathA, size |-> 1] >> }
  \cup UNION { { << [path |-> ManifestName, size |-> n] >>,
                 << [path |-> PathA, size |-> 1], [path |-> ManifestName, size |-> n] >> } :
               n \in 1..MaxSize }

InitWeightMap ==
  /\ opc = "resolve"
  /\ listing \in WeightMapListings
  /\ disk \in { d \in [{PathA, ManifestName} -> UNION { LocalStarts(n) : n \in 0..MaxSize }] :
                  /\ d[PathA] = NoFile
                  /\ d[ManifestName] \in IF manifest_size = 0 THEN {NoFile}
                                          ELSE LocalStarts(manifest_size) }
  /\ manifests \in { m \in [remote : {"absent", "weight_map", "no_weight_map"},
                            other : {"absent", "weight_map", "no_weight_map", "invalid"}] :
                       (m.remote = "absent") = (manifest_size = 0) }
  /\ allow_patterns = Str(ManifestName)
  /\ ignore_patterns = NonePat
  /\ server = "honest"
  /\ faults = RepoFaults
  /\ InitCommon

NextWeightMap ==
  \/ ResolveRevision
  \/ FetchFileList
  \/ \E i \in Tasks : Probe(i)
  \/ \E i \in Tasks : RequestFails(i)
  \/ \E i \in Tasks : Chunk(i)
  \/ \E i \in Tasks : StreamEnd(i)
  \/ \E i \in Tasks : StreamFails(i)
  \/ \E i \in Tasks : WriteFails(i)
  \/ \E i \in Tasks : Finish(i)
  \/ GatherReturns
  \/ GatherRaises
  \/ GetWeightMap
  \/ GetWeightMapRaises

SpecWeightMap == InitWeightMap /\ [][NextWeightMap]_vars

\* ------------------------------------------------------------------ claims
Finished(i) == task[i].pc \in {"returned", "done"}
Running(i) == task[i].pc \in {"call", "streaming", "returned"}
RemoteFile(i) == File(Remote(task[i].file_info.size))

\* C1: a call that finds the first K < T bytes of a T-byte file and gets the
\* 206 for bytes=K- (Content-Range total T, Content-Length T-K) leaves exactly
\* the T remote bytes in the destination when it returns.
C1_ResumeExact ==
  \A i \in Tasks :
    (hist[i].first = "resume206" /\ ~hist[i].again /\ Finished(i))
      => disk[PathOf(i)] = RemoteFile(i)

\* C2: a call whose first response shows the local size to equal the remote
\* total (a 200 with that Content-Length, or a 416 with "bytes */T" and local
\* size T) returns at once: no chunk read, exactly one file event, that event
\* complete, the destination untouched.
C2_CompleteShortCircuit ==
  \A i \in Tasks :
    hist[i].first \in {"complete200", "complete416"}
      => /\ Finished(i)
         /\ ~hist[i].again
         /\ hist[i].reads = 0
         /\ hist[i].nEv = 1
         /\ hist[i].lastEv.status = "complete"
         /\ disk[PathOf(i)] = disk0[PathOf(i)]

C2_Witness ==
  \E i \in Tasks :
    /\ hist[i].first = "complete416"
    /\ task[i].pc = "returned"
    /\ task[i].file_info.size = MaxSize
    /\ disk0[PathOf(i)] = RemoteFile(i)
    /\ hist[i].nEv = 1

RECURSIVE SumDownloaded(_, _)
SumDownloaded(fp, paths) ==
  IF paths = {} THEN 0
  ELSE LET q == CHOOSE q \in paths : TRUE
       IN fp[q].downloaded + SumDownloaded(fp, paths \ {q})

\* The run started from fresh, partial or complete local files (none longer
\* than its listed size) and no fault has been injected into it.
StartsWithinSize ==
  \A j \in 1..Len(listing) : local_size(disk0[listing[j].path]) <= listing[j].size
HonestRun ==
  /\ StartsWithinSize
  /\ faults = RepoFaults

\* C3: every aggregate event carries a downloaded_bytes equal to the sum of the
\* downloaded values of the per-file map it carries (stated for the runs where
\* the server answers correctly and nothing fails).
C3_AggregateIsSum ==
  (lastAgg.status # "none" /\ HonestRun)
    => lastAgg.downloaded_bytes =
         SumDownloaded(lastAgg.file_progress, DOMAIN lastAgg.file_progress)

AllDone == Tasks # {} /\ \A i \in Tasks : task[i].pc = "done"

\* C4: the completed-file count of the aggregate events never decreases and
\* never exceeds total_files; once every transfer of a run with at least one
\* file has succeeded, exactly one aggregate event has carried
\* completed_files = total_files, and it is the latest one.
C4_CompletedCount ==
  /\ [](/\ lastAgg.completed_files <= lastAgg.total_files
        /\ AllDone => (nFull = 1 /\ lastAgg.completed_files = total_files
                       /\ lastAgg.total_files = total_files))
  /\ [][lastAgg'.completed_files >= lastAgg.completed_files]_vars

C4_Witness ==
  /\ opc = "returned"
  /\ total_files = 2
  /\ nFull = 1
  /\ lastAgg.completed_files = 2

\* C5: an aggregate event with status complete has completed_files =
\* total_files (stated for the runs with bytes to fetch where the server
\* answers correctly and nothing fails).
C5_CompleteMeansAllDone ==
  (lastAgg.status = "complete" /\ lastAgg.total_bytes > 0 /\ HonestRun)
    => lastAgg.completed_files = lastAgg.total_files

\* C6: the call returns the snapshot path only when every launched transfer
\* returned without error; with a failed transfer it never returns.
C6_NoPartialSuccess ==
  /\ opc = "returned" => \A i \in Tasks : task[i].pc = "done"
  /\ (\E i \in Tasks : task[i].pc = "failed") => opc \in {"gather", "raised"}

C6_Witness ==
  /\ opc = "raised"
  /\ Len(task) = 2
  /\ \E i \in Tasks : task[i].pc = "failed"
  /\ \E i \in Tasks : task[i].pc = "done"

\* C7 as stated: when the call has finished, by returning or by raising, no
\* launched transfer is still running.
C7_FinishesAfterEveryTransfer ==
  opc \in {"returned", "raised"} => \A i \in Tasks : ~Running(i)

\* C7 as amended: the call returns only when no launched transfer is running
\* any more; it raises after fan-out only once a transfer has failed, and the
\* other transfers may then still be running.
C7_ReturnsAfterEveryTransfer ==
  /\ opc = "returned" => \A i \in Tasks : ~Running(i)
  /\ (opc = "raised" /\ Tasks # {}) => \E i \in Tasks : task[i].pc = "failed"

C7_Witness ==
  /\ opc = "raised"
  /\ \E i \in Tasks : task[i].pc = "failed"
  /\ \E i \in Tasks : task[i].pc = "streaming"

\* The claim's reading of the patterns: a pattern that ends in '/' stands for
\* that pattern followed by '*'.
Widen(pattern) ==
  IF pattern # <<>> /\ pattern[Len(pattern)] = "/" THEN pattern \o <<"*">> ELSE pattern
Matches(path, patterns) ==
  \E j \in 1..Len(patterns.v) : fnmatch(path, Widen(patterns.v[j]))
Passes(item) ==
  /\ allow_patterns.kind = "none" \/ Matches(item.path, allow_patterns)
  /\ ignore_patterns.kind = "none" \/ ~Matches(item.path, ignore_patterns)

\* C8: filter_repo_objects yields, in input order, exactly the items that match
\* an allow pattern (or allow is unset) and no ignore pattern; with both unset
\* it yields its input.
C8_FilterExact ==
  opc = "filtered"
    => /\ ~filtered.raised
       /\ filtered.items = SelectSeq(listing, Passes)
       /\ (allow_patterns = NonePat /\ ignore_patterns = NonePat) => filtered.items = listing

\* The same for pattern arguments that hold no empty pattern.
NoEmptyPattern(patterns) == \A j \in 1..Len(patterns.v) : patterns.v[j] # <<>>
C8_FilterExactNonEmpty ==
  (opc = "filtered" /\ NoEmptyPattern(allow_patterns) /\ NoEmptyPattern(ignore_patterns))
    => /\ ~filtered.raised
       /\ filtered.items = SelectSeq(listing, Passes)

\* "data/" matches "data/x" and "data/y/z", not "dataX".
C8_DirectoryPattern ==
  (opc = "filtered" /\ allow_patterns = Str(<<"d", "/">>) /\ ignore_patterns = NonePat)
    => filtered.items = SelectSeq(listing,
                          LAMBDA it : it.path \in { <<"d", "/", "x">>, <<"d", "/", "y", "/", "z">> })

Launched == opc \in {"gather", "returned"} \/ (opc = "raised" /\ Tasks # {})
PassingFiles == SelectSeq(listing, Passes)

\* C9: one transfer is launched for each listed file that passes the filter and
\* none for an excluded file, whose local copy stays as it was; total_files and
\* total_bytes are the count and the size sum of the passing files, in every
\* aggregate event.
C9_OneTransferPerFilteredFile ==
  /\ Launched =>
       \A j \in 1..Len(listing) :
         /\ Cardinality({ i \in Tasks : task[i].file_info = listing[j] })
              = IF Passes(listing[j]) THEN 1 ELSE 0
         /\ ~Passes(listing[j]) => disk[listing[j].path] = disk0[listing[j].path]
  /\ Launched => (total_files = Len(PassingFiles) /\ total_bytes = sum_sizes(PassingFiles))
  /\ lastAgg.status # "none" =>
       /\ lastAgg.total_files = Len(PassingFiles)
       /\ lastAgg.total_bytes = sum_sizes(PassingFiles)

C9_Witness ==
  /\ opc = "returned"
  /\ allow_patterns = Str(<<"*", ".", "b">>)
  /\ Len(task) = 1
  /\ task[1].file_info.path = PathA
  /\ disk[PathB] = File(Remote(1))
  /\ lastAgg.total_files = 1

\* C10: when every transfer of a run with at least one file has returned, the
\* final aggregate event reports downloaded_bytes = total_bytes (stated for the
\* runs where the server answers correctly and nothing fails).
C10_FinalBytesEqualTotal ==
  (opc = "returned" /\ Tasks # {} /\ HonestRun)
    => lastAgg.downloaded_bytes = lastAgg.total_bytes

ManifestListed == \E j \in 1..Len(listing) : listing[j].path = ManifestName

\* C11: when the revision resolves and its listing holds no
\* model.safetensors.index.json, get_weight_map launches no transfer and
\* returns None without raising, whatever the cache held before (snapshots of
\* other commits included; stated for the caches whose manifests are intact).
C11_NoManifestReturnsNone ==
  (~ManifestListed /\ manifests.other # "invalid") =>
    /\ Tasks = {}
    /\ (opc = "returned" /\ weight_map # NotReturned) => weight_map = Returned("None")

\* C12: no file event of download_file reports more downloaded bytes than
\* total bytes, for every 200, 206 or 416 answer, every Content-Length and
\* Content-Range and every local file size (stated for the calls that no
\* fault is injected into).
C12_DownloadedWithinTotal ==
  \A i \in Tasks :
    (hist[i].nEv > 0 /\ faults = RepoFaults)
      => hist[i].lastEv.downloaded <= hist[i].lastEv.total


\* C13: over one download_file call, with its retries and its no-range
\* fallback, the downloaded values of the file events it emits never decrease.
C13_DownloadedNonDecreasing ==
  [][\A i \in Tasks :
       hist[i].nEv > 0 => hist'[i].lastEv.downloaded >= hist[i].lastEv.downloaded]_vars


\* C14: a response whose status is not 200, 206 or 416 never makes
\* download_file emit a complete event or return normally, whatever its
\* Content-Length and the local file size are.
C14_ErrorStatusNeverCompletes ==
  \A i \in Tasks :
    (hist[i].first = "error" /\ ~hist[i].again)
      => /\ ~Finished(i)
         /\ hist[i].nEv = 0


\* The first response of the call had an error status and download_file raised
\* ClientResponseError for it (it did not return on it).
ErrorRaised(i) == hist[i].first = "error" /\ ~(Finished(i) /\ ~hist[i].again)

\* C15: once download_file has raised for a response with a status other than
\* 200, 206 or 416, the call has ended with that error and issues no further
\* request.
C15_StatusErrorNotRetried ==
  \A i \in Tasks :
    ErrorRaised(i) => (task[i].pc = "failed" /\ ~hist[i].again)


\* C16: one download_file call never makes more than MaxAttempts (5) requests
\* that end in a transport failure, wherever in the call they fail (ranged
\* request or no-range fallback).
C16_AtMostFiveTransientFailures ==
  \A i \in Tasks : hist[i].transient <= MaxAttempts

\* C17: within one download_file call the no-range fallback is taken at most
\* once: there is never more than one frame under the outermost one.
C17_FallbackAtMostOnce ==
  \A i \in Tasks : Len(task[i].stack) <= 2


\* C18: when the first response is a 416 whose Content-Range total parses and
\* differs from the local file size, the call restarts from scratch: its next
\* step is a request without Range (a new frame); nothing is appended to the
\* destination, no file event is emitted and the call does not return on the
\* strength of that response.
C18_Mismatch416Restarts ==
  \A i \in Tasks :
    (hist[i].first = "mismatch416" /\ ~hist[i].again)
      => /\ task[i].pc = "call"
         /\ ~use_range_request(task[i].stack)
         /\ disk[PathOf(i)] = disk0[PathOf(i)]
         /\ hist[i].nEv = 0


\* C19: when the first response gives a total size of zero or none (no
\* Content-Length or Content-Length 0 on a 200, a Content-Range total of 0 on a
\* 206 or a 416), the call completes at once for every local file size: it has
\* returned, with exactly one file event, that event complete, and no body
\* chunk read.
C19_ZeroTotalCompletesAtOnce ==
  \A i \in Tasks :
    (hist[i].zero /\ ~hist[i].again)
      => /\ Finished(i)
         /\ hist[i].nEv = 1
         /\ hist[i].lastEv.status = "complete"
         /\ hist[i].reads = 0


FailedCalls == { n \in 1..Len(api) : api[n].status # 200 }
TreeCalls == { n \in 1..Len(api) : api[n].kind = "tree" }

\* C20: a non-success status on the revision lookup or on a listing request,
\* at any depth of the tree, ends download_repo_files before fan-out: the
\* failed request is the last one made and no request is made twice, no
\* transfer is launched and no progress event is emitted; the refs entry is
\* written exactly when the revision lookup succeeded, hence before every
\* listing request and before every transfer.
C20_ListingFailureAborts ==
  /\ \A n \in FailedCalls :
       /\ n = Len(api)
       /\ opc = "raised"
       /\ Tasks = {}
       /\ lastAgg = NoRepoEvent
       /\ file_progress = <<>>
  /\ \A n, m \in 1..Len(api) : (api[n].kind = api[m].kind /\ api[n].path = api[m].path) => n = m
  /\ refs = (api # <<>> /\ api[1] = ApiCall("revision", <<>>, 200))
  /\ (TreeCalls # {} \/ Tasks # {}) => refs

C20_Witness ==
  /\ opc = "raised"
  /\ refs
  /\ Len(api) = 3
  /\ api[3] = ApiCall("tree", <<"d">>, 404)
  /\ Tasks = {}

====
